---- MODULE Spec2Model ----
(***************************************************************************)
(* Classic Games Arcade leaderboard: the Lambda behind the scores API      *)
(* (amplify/backend/function/leaderboardApi/index.js) and the browser      *)
(* module (leaderboard.js) with its localStorage mirror.                   *)
(*                                                                         *)
(* The DynamoDB table is a set of items keyed by (gameId, rank); every     *)
(* docClient.send is one atomic step of the invocation that awaits it.     *)
(* localStorage holds one blob, a mapping gameId -> ordered list.          *)
(***************************************************************************)
EXTENDS Integers, Sequences, FiniteSets, TLC

VARIABLES
    isLocal,        \* leaderboard.js: the environment detection, fixed at load
    game,           \* the configured game this run's page plays
    clock,          \* the last time Date.now() returned
    table,          \* the DynamoDB table: a set of items
    pc,             \* per Lambda invocation: the store call it awaits
    lam,            \* per Lambda invocation: the locals of handler/submitScore
    localStorage,   \* the parsed blob stored under STORAGE_KEY
    loc,            \* the last localSubmitScore call: arguments, list read, result
    cli,            \* the page's checkAndSubmitScore call: position and locals
    calls,          \* requests made so far, where a run bounds them
    raced           \* a request has arrived while another was in flight

vars == <<isLocal, game, clock, table, pc, lam, localStorage, loc, cli, calls,
          raced>>

----------------------------------------------------------------------------
(* Bounds of the model *)

\* scores are drawn from 1..MaxScore
MaxScore == 2

\* requests in a run of the specifications that count them
MaxCalls == 3

Scores == 1..MaxScore

\* the instants Date.now() returns in a run: one millisecond and the next
Instants == {0, 1}

\* Date.now(): an instant not before the last one read
Now == {t \in Instants : t >= clock}

\* player names, as sequences of characters
Ann == <<"A", "n", "n">>
Bob == <<"B", "o", "b">>
Names == {Ann}

\* Lambda invocations that may be in flight
Procs == {1, 2}

----------------------------------------------------------------------------
(* Configuration *)

MAX_ENTRIES == 10

\* index.js GAMES: gameId -> scoreType
LambdaGAMES ==
    ("pong" :> "high") @@ ("flappy-bird" :> "high") @@ ("snake" :> "high") @@
    ("rooftop-snipers" :> "high") @@ ("chess" :> "high") @@
    ("city-runner" :> "high") @@ ("retro-football" :> "high") @@
    ("bedtime-berzerk" :> "low")

\* leaderboard.js GAMES: gameId -> scoreType
ClientGAMES ==
    ("pong" :> "high") @@ ("flappy-bird" :> "high") @@ ("snake" :> "high") @@
    ("rooftop-snipers" :> "high") @@ ("chess" :> "high") @@
    ("city-runner" :> "high") @@ ("retro-football" :> "high") @@
    ("bedtime-berzerk" :> "low") @@ ("homerun-derby" :> "high")

\* a game id neither configuration knows
StrayGame == "tetris"

\* the games a run's page may play: one per score direction, and the one
\* only leaderboard.js configures
PageGames == {"pong", "bedtime-berzerk", "homerun-derby"}

NoValue == "undefined"

----------------------------------------------------------------------------
(* Pure functions *)

\* Beats with the scoreType ignored: every game compared as 'high'
Beats_IgnoresType(scoreType, score, other) ==
    score > other

\* Beats with >= and <= for > and <
Beats_OrEqual(scoreType, score, other) ==
    \/ scoreType = "high" /\ score >= other
    \/ scoreType = "low" /\ score <= other

\* score > other for 'high', score < other for 'low'
Beats(scoreType, score, other) ==
    \/ scoreType = "high" /\ score > other
    \/ scoreType = "low" /\ score < other

\* the for loop of getRank: i + 1 for the first i the score beats, 0 if none
RECURSIVE ScanFrom(_, _, _, _)
ScanFrom(scoreType, score, leaderboard, i) ==
    IF i > Len(leaderboard) THEN 0
    ELSE IF Beats(scoreType, score, leaderboard[i].score) THEN i
    ELSE ScanFrom(scoreType, score, leaderboard, i + 1)

\* getRank returning i for i + 1
LambdaGetRank_ZeroBased(scoreType, score, leaderboard) ==
    LET hit == ScanFrom(scoreType, score, leaderboard, 1) IN
    IF Len(leaderboard) < MAX_ENTRIES
    THEN (IF hit # 0 THEN hit - 1 ELSE Len(leaderboard) + 1)
    ELSE (IF hit # 0 THEN hit - 1 ELSE -1)

\* getRank with leaderboard.length <= MAX_ENTRIES for the room check
LambdaGetRank_RoomAtTen(scoreType, score, leaderboard) ==
    LET hit == ScanFrom(scoreType, score, leaderboard, 1) IN
    IF Len(leaderboard) <= MAX_ENTRIES
    THEN (IF hit # 0 THEN hit ELSE Len(leaderboard) + 1)
    ELSE (IF hit # 0 THEN hit ELSE -1)

\* getRank appending at leaderboard.length + 2
LambdaGetRank_SkipsARank(scoreType, score, leaderboard) ==
    LET hit == ScanFrom(scoreType, score, leaderboard, 1) IN
    IF Len(leaderboard) < MAX_ENTRIES
    THEN (IF hit # 0 THEN hit ELSE Len(leaderboard) + 2)
    ELSE (IF hit # 0 THEN hit ELSE -1)

\* index.js getRank(scoreType, score, leaderboard)
LambdaGetRank(scoreType, score, leaderboard) ==
    LET hit == ScanFrom(scoreType, score, leaderboard, 1) IN
    IF Len(leaderboard) < MAX_ENTRIES
    THEN (IF hit # 0 THEN hit ELSE Len(leaderboard) + 1)
    ELSE (IF hit # 0 THEN hit ELSE -1)

\* the client's getRank with leaderboard.length <= MAX_ENTRIES for the append
ClientGetRank_RoomAtTen(gameId, score, leaderboard) ==
    IF gameId \notin DOMAIN ClientGAMES THEN -1
    ELSE LET hit == ScanFrom(ClientGAMES[gameId], score, leaderboard, 1) IN
         IF hit # 0 THEN hit
         ELSE IF Len(leaderboard) <= MAX_ENTRIES THEN Len(leaderboard) + 1
         ELSE -1

\* leaderboard.js getRank(gameId, score, leaderboard)
ClientGetRank(gameId, score, leaderboard) ==
    IF gameId \notin DOMAIN ClientGAMES THEN -1
    ELSE LET hit == ScanFrom(ClientGAMES[gameId], score, leaderboard, 1) IN
         IF hit # 0 THEN hit
         ELSE IF Len(leaderboard) < MAX_ENTRIES THEN Len(leaderboard) + 1
         ELSE -1

\* scoreQualifies with >= and <= against the worst score
ScoreQualifies_OrEqual(gameId, score, leaderboard) ==
    IF gameId \notin DOMAIN ClientGAMES THEN FALSE
    ELSE IF Len(leaderboard) < MAX_ENTRIES THEN TRUE
    ELSE LET worstScore == leaderboard[Len(leaderboard)].score IN
         IF ClientGAMES[gameId] = "high" THEN score >= worstScore
         ELSE score <= worstScore

\* leaderboard.js scoreQualifies(gameId, score, leaderboard)
ScoreQualifies(gameId, score, leaderboard) ==
    IF gameId \notin DOMAIN ClientGAMES THEN FALSE
    ELSE IF Len(leaderboard) < MAX_ENTRIES THEN TRUE
    ELSE LET worstScore == leaderboard[Len(leaderboard)].score IN
         IF ClientGAMES[gameId] = "high" THEN score > worstScore
         ELSE score < worstScore

\* playerName.substring(0, 10)
Substring10(playerName) ==
    IF Len(playerName) <= 10 THEN playerName ELSE SubSeq(playerName, 1, 10)

\* Array.prototype.splice(rank - 1, 0, newEntry)
Splice(list, rank, newEntry) ==
    SubSeq(list, 1, rank - 1) \o <<newEntry>> \o SubSeq(list, rank, Len(list))

----------------------------------------------------------------------------
(* The DynamoDB table *)

\* PutCommand with rank alone as the key
Put_IgnoresGame(t, item) ==
    {x \in t : x.rank # item.rank} \cup {item}

\* PutCommand: upsert by the key (gameId, rank)
Put(t, item) ==
    {x \in t : ~(x.gameId = item.gameId /\ x.rank = item.rank)} \cup {item}

\* DeleteCommand: remove the item with the key, if any
Delete(t, gameId, rank) ==
    {x \in t : ~(x.gameId = gameId /\ x.rank = rank)}

\* items.sort((a, b) => a.rank - b.rank)
RECURSIVE SortByRank(_)
SortByRank(items) ==
    IF items = {} THEN <<>>
    ELSE LET first == CHOOSE x \in items : \A y \in items : x.rank <= y.rank
         IN <<first>> \o SortByRank(items \ {first})

\* getLeaderboardWithRanks(gameId): the query and the sort
GetLeaderboardWithRanks(t, gameId) ==
    SortByRank({x \in t : x.gameId = gameId})

----------------------------------------------------------------------------
(* Initial state *)

\* no response yet
NoResult == [pending |-> TRUE]

NoLocals ==
    [gameId |-> NoValue, body |-> <<>>, playerName |-> <<>>, score |-> 0,
     leaderboard |-> <<>>, rank |-> 0, newEntry |-> NoResult,
     todo |-> <<>>, statusCode |-> 0, result |-> NoResult]

NoCall ==
    [gameId |-> NoValue, playerName |-> <<>>, score |-> 0,
     leaderboard |-> <<>>, result |-> NoResult]

NoClient ==
    [pc |-> "idle", gameId |-> NoValue, score |-> 0, playerName |-> <<>>,
     leaderboard |-> <<>>, rank |-> 0, caught |-> FALSE, result |-> NoResult]

\* initStorage(): an empty list for every game of leaderboard.js
EmptyLeaderboards == [g \in DOMAIN ClientGAMES |-> <<>>]

Init ==
    /\ isLocal \in BOOLEAN
    /\ game \in PageGames
    /\ clock = 0
    /\ table = {}
    /\ pc = [p \in Procs |-> "idle"]
    /\ lam = [p \in Procs |-> NoLocals]
    /\ localStorage = EmptyLeaderboards
    /\ loc = NoCall
    /\ cli = NoClient
    /\ calls = 0
    /\ raced = FALSE

----------------------------------------------------------------------------
(* The Lambda: exports.handler for POST /scores/{gameId}, and submitScore *)

\* the result with rank - 1 for rank
Result_ZeroBased(qualified, rank, error) ==
    [qualified |-> qualified, rank |-> rank - 1, error |-> error]

\* the object submitScore or localSubmitScore returns
Result(qualified, rank, error) ==
    [qualified |-> qualified, rank |-> rank, error |-> error]

\* the validation with !score for score === undefined
MissingField_ZeroIsMissing(body) ==
    \/ "playerName" \notin DOMAIN body
    \/ body.playerName = <<>>
    \/ "score" \notin DOMAIN body
    \/ body.score = 0

\* !playerName || score === undefined, for the parsed body of the request
MissingField(body) ==
    \/ "playerName" \notin DOMAIN body
    \/ body.playerName = <<>>
    \/ "score" \notin DOMAIN body

\* the request arrives: the handler's validation and submitScore up to its
\* first store call
Post(p, gameId, body) ==
    /\ pc[p] \in {"idle", "done"}
    /\ IF MissingField(body)
       THEN /\ pc' = [pc EXCEPT ![p] = "done"]
            /\ lam' = [lam EXCEPT ![p] =
                   [NoLocals EXCEPT !.gameId = gameId, !.body = body,
                       !.statusCode = 400,
                       !.result = [error |-> "playerName and score are required"]]]
       ELSE IF gameId \notin DOMAIN LambdaGAMES
       THEN /\ pc' = [pc EXCEPT ![p] = "done"]
            /\ lam' = [lam EXCEPT ![p] =
                   [NoLocals EXCEPT !.gameId = gameId, !.body = body,
                       !.playerName = body.playerName,
                       !.score = body.score, !.statusCode = 200,
                       !.result = Result(FALSE, -1, "Unknown game")]]
       ELSE /\ pc' = [pc EXCEPT ![p] = "query"]
            /\ lam' = [lam EXCEPT ![p] =
                   [NoLocals EXCEPT !.gameId = gameId, !.body = body,
                       !.playerName = body.playerName,
                       !.score = body.score]]
    /\ UNCHANGED <<isLocal, game, clock, table, localStorage, loc>>

\* entriesToUpdate with e.rank > rank
EntriesToUpdate_Above(leaderboard, rank) ==
    SelectSeq(leaderboard, LAMBDA e : e.rank > rank)

\* entriesToUpdate: leaderboard.filter(e => e.rank >= rank)
EntriesToUpdate(leaderboard, rank) ==
    SelectSeq(leaderboard, LAMBDA e : e.rank >= rank)

\* the query of getLeaderboardWithRanks returns; getRank, newEntry and
\* entriesToUpdate are computed
Query(p) ==
    /\ pc[p] = "query"
    /\ \E now \in Now :
       LET l == lam[p]
           scoreType == LambdaGAMES[l.gameId]
           leaderboard == GetLeaderboardWithRanks(table, l.gameId)
           rank == LambdaGetRank(scoreType, l.score, leaderboard)
           newEntry == [gameId |-> l.gameId, rank |-> rank,
                        playerName |-> Substring10(l.playerName),
                        score |-> l.score, timestamp |-> now,
                        scoreType |-> scoreType]
           todo == EntriesToUpdate(leaderboard, rank)
       IN IF rank = -1
          THEN /\ pc' = [pc EXCEPT ![p] = "done"]
               /\ lam' = [lam EXCEPT ![p] =
                      [l EXCEPT !.leaderboard = leaderboard, !.rank = rank,
                          !.statusCode = 200,
                          !.result = Result(FALSE, -1, NoValue)]]
               /\ UNCHANGED clock
          ELSE /\ pc' = [pc EXCEPT ![p] = IF todo = <<>> THEN "insert" ELSE "shift"]
               /\ lam' = [lam EXCEPT ![p] =
                      [l EXCEPT !.leaderboard = leaderboard, !.rank = rank,
                          !.newEntry = newEntry, !.todo = todo]]
               /\ clock' = now
    /\ UNCHANGED <<isLocal, game, table, localStorage, loc>>

\* the shift loop with entry.rank <= MAX_ENTRIES for the move
ShiftWrite_MovesLast(t, gameId, entry) ==
    IF entry.rank <= MAX_ENTRIES
    THEN Put(t, [entry EXCEPT !.rank = entry.rank + 1])
    ELSE Delete(t, gameId, entry.rank)

\* the shift loop writing an Item without the entry's playerName
ShiftWrite_DropsName(t, gameId, entry) ==
    IF entry.rank < MAX_ENTRIES
    THEN Put(t, [entry EXCEPT !.rank = entry.rank + 1, !.playerName = <<>>])
    ELSE Delete(t, gameId, entry.rank)

\* one store call of the shift loop, for the next entry of entriesToUpdate
ShiftWrite(t, gameId, entry) ==
    IF entry.rank < MAX_ENTRIES
    THEN Put(t, [entry EXCEPT !.rank = entry.rank + 1])
    ELSE Delete(t, gameId, entry.rank)

Shift(p) ==
    /\ pc[p] = "shift"
    /\ LET l == lam[p]
           entry == Head(l.todo)
       IN /\ table' = ShiftWrite(table, l.gameId, entry)
          /\ lam' = [lam EXCEPT ![p] = [l EXCEPT !.todo = Tail(l.todo)]]
          /\ pc' = [pc EXCEPT ![p] = IF Tail(l.todo) = <<>> THEN "insert" ELSE "shift"]
    /\ UNCHANGED <<isLocal, game, clock, localStorage, loc>>

\* the PutCommand of newEntry
Insert(p) ==
    /\ pc[p] = "insert"
    /\ table' = Put(table, lam[p].newEntry)
    /\ pc' = [pc EXCEPT ![p] = "cleanup"]
    /\ UNCHANGED <<isLocal, game, clock, lam, localStorage, loc>>

\* the DeleteCommand at rank MAX_ENTRIES + 1, and the return
Cleanup(p) ==
    /\ pc[p] = "cleanup"
    /\ table' = Delete(table, lam[p].gameId, MAX_ENTRIES + 1)
    /\ pc' = [pc EXCEPT ![p] = "done"]
    /\ lam' = [lam EXCEPT ![p] =
           [lam[p] EXCEPT !.statusCode = 200,
               !.result = Result(TRUE, lam[p].rank, NoValue)]]
    /\ UNCHANGED <<isLocal, game, clock, localStorage, loc>>

----------------------------------------------------------------------------
(* leaderboard.js: the localStorage backend *)

\* leaderboards[gameId] || []
LocalList(leaderboards, gameId) ==
    IF gameId \in DOMAIN leaderboards THEN leaderboards[gameId] ELSE <<>>

\* localSubmitScore without the pop
LocalInsert_NoPop(leaderboard, rank, newEntry) ==
    Splice(leaderboard, rank, newEntry)

\* the list localSubmitScore saves: splice, then pop when over MAX_ENTRIES
LocalInsert(leaderboard, rank, newEntry) ==
    LET spliced == Splice(leaderboard, rank, newEntry) IN
    IF Len(spliced) > MAX_ENTRIES
    THEN SubSeq(spliced, 1, Len(spliced) - 1)
    ELSE spliced

\* localSubmitScore(gameId, playerName, score): no await inside, one step;
\* what it does to localStorage, with the call recorded in loc
LocalSubmitScore(gameId, playerName, score) ==
    \E now \in Now :
    LET leaderboard == LocalList(localStorage, gameId)
        call == [gameId |-> gameId, playerName |-> playerName, score |-> score,
                 leaderboard |-> leaderboard, result |-> NoResult]
    IN
    /\ IF gameId \notin DOMAIN ClientGAMES
          \/ ~ScoreQualifies(gameId, score, leaderboard)
       THEN /\ loc' = [call EXCEPT !.result = Result(FALSE, -1, NoValue)]
            /\ UNCHANGED <<localStorage, clock>>
       ELSE LET rank == ClientGetRank(gameId, score, leaderboard)
                newEntry == [playerName |-> playerName, score |-> score,
                             timestamp |-> now]
            IN /\ localStorage' =
                      (gameId :> LocalInsert(leaderboard, rank, newEntry))
                          @@ localStorage
               /\ loc' = [call EXCEPT !.result = Result(TRUE, rank, NoValue)]
               /\ clock' = now

----------------------------------------------------------------------------
(* The Lambda: a store call fails, and GET /scores/{gameId} *)

\* docClient.send rejects: the handler's catch answers 500
StoreFails(p) ==
    /\ pc[p] \in {"query", "shift", "insert", "cleanup"}
    /\ pc' = [pc EXCEPT ![p] = "done"]
    /\ lam' = [lam EXCEPT ![p] =
           [lam[p] EXCEPT !.statusCode = 500,
               !.result = [error |-> "Internal server error"]]]
    /\ UNCHANGED <<isLocal, game, clock, table, localStorage, loc>>

\* the first n elements of a list
Take(list, n) == SubSeq(list, 1, IF Len(list) < n THEN Len(list) ELSE n)

\* getLeaderboard(gameId): the query with Limit MAX_ENTRIES, the sort and
\* the projection to {playerName, score, timestamp}
GetLeaderboard(t, gameId) ==
    LET items == Take(GetLeaderboardWithRanks(t, gameId), MAX_ENTRIES) IN
    [i \in 1..Len(items) |->
        [playerName |-> items[i].playerName, score |-> items[i].score,
         timestamp |-> items[i].timestamp]]

\* the entries the Lambda's getAllLeaderboards keeps of each game
TOP_ENTRIES == 3

\* index.js getAllLeaderboards(): a key for every game of GAMES and for
\* every gameId the scan returns; each list sorted by rank, cut to 3 and
\* projected to {playerName, score, timestamp}
LambdaGetAllLeaderboards(t) ==
    [g \in DOMAIN LambdaGAMES \cup {x.gameId : x \in t} |->
        LET items == Take(GetLeaderboardWithRanks(t, g), TOP_ENTRIES) IN
        [i \in 1..Len(items) |->
            [playerName |-> items[i].playerName, score |-> items[i].score,
             timestamp |-> items[i].timestamp]]]

\* leaderboard.js localGetAllLeaderboards(): the parsed blob
LocalGetAllLeaderboards == localStorage

\* leaderboard.js getAllLeaderboards(): the blob in local mode or when the
\* fetch fails, else the Lambda's answer
ClientGetAllLeaderboards(fetchOk) ==
    IF isLocal \/ ~fetchOk THEN LocalGetAllLeaderboards
    ELSE LambdaGetAllLeaderboards(table)

----------------------------------------------------------------------------
(* leaderboard.js: checkAndSubmitScore and apiSubmitScore *)

\* getLeaderboard(gameId) as the page gets it: the local list in local mode
\* or when the fetch fails, else the Lambda's answer
ClientGetLeaderboard(gameId, fetchOk) ==
    IF isLocal \/ ~fetchOk THEN LocalList(localStorage, gameId)
    ELSE GetLeaderboard(table, gameId)

\* checkAndSubmitScore(gameId, score) up to the name prompt
CheckAndSubmitScore(gameId, score, fetchOk) ==
    /\ cli.pc \in {"idle", "done"}
    /\ LET leaderboard == ClientGetLeaderboard(gameId, fetchOk)
           call == [NoClient EXCEPT !.gameId = gameId, !.score = score,
                       !.leaderboard = leaderboard]
       IN IF ~ScoreQualifies(gameId, score, leaderboard)
          THEN cli' = [call EXCEPT !.pc = "done",
                          !.result = Result(FALSE, -1, NoValue)]
          ELSE cli' = [call EXCEPT !.pc = "prompt",
                          !.rank = ClientGetRank(gameId, score, leaderboard)]
    /\ UNCHANGED <<isLocal, game, clock, table, pc, lam, localStorage, loc>>

\* showNamePrompt resolves, in local mode: localSubmitScore
PromptThenLocal(playerName) ==
    /\ cli.pc = "prompt"
    /\ isLocal
    /\ LocalSubmitScore(cli.gameId, playerName, cli.score)
    /\ cli' = [cli EXCEPT !.pc = "done", !.playerName = playerName,
                   !.result = loc'.result]
    /\ UNCHANGED <<isLocal, game, table, pc, lam>>

\* showNamePrompt resolves, in API mode: apiSubmitScore starts its fetch
PromptThenFetch(playerName) ==
    /\ cli.pc = "prompt"
    /\ ~isLocal
    /\ cli' = [cli EXCEPT !.pc = "fetch", !.playerName = playerName]
    /\ UNCHANGED <<isLocal, game, clock, table, pc, lam, localStorage, loc>>

\* the POST reaches the Lambda
Deliver ==
    /\ cli.pc = "fetch"
    /\ Post(1, cli.gameId, [playerName |-> cli.playerName, score |-> cli.score])
    /\ cli' = [cli EXCEPT !.pc = "await"]

\* response.ok: apiSubmitScore returns response.json()
ResponseOk ==
    /\ cli.pc = "await"
    /\ pc[1] = "done"
    /\ lam[1].statusCode = 200
    /\ cli' = [cli EXCEPT !.pc = "done", !.result = lam[1].result]
    /\ UNCHANGED <<isLocal, game, clock, table, pc, lam, localStorage, loc>>

\* the catch of apiSubmitScore: localSubmitScore and its result
Fallback ==
    /\ LocalSubmitScore(cli.gameId, cli.playerName, cli.score)
    /\ cli' = [cli EXCEPT !.pc = "done", !.caught = TRUE, !.result = loc'.result]
    /\ UNCHANGED <<isLocal, game, table, pc, lam>>

\* !response.ok: apiSubmitScore throws 'API error' and catches it
ResponseNotOk ==
    /\ cli.pc = "await"
    /\ pc[1] = "done"
    /\ lam[1].statusCode # 200
    /\ Fallback

\* fetch rejects: the request never left, or the response was lost
FetchThrows ==
    /\ cli.pc = "fetch" \/ (cli.pc = "await" /\ pc[1] = "done")
    /\ Fallback

----------------------------------------------------------------------------
(* Submissions one at a time, to the page's game or to the stray id, on    *)
(* the backend the environment detection selects.                          *)

SubmitRemote ==
    /\ ~isLocal
    /\ \E g \in {game, StrayGame}, n \in Names, s \in Scores :
           Post(1, g, [playerName |-> n, score |-> s])
    /\ UNCHANGED <<cli, calls, raced>>

StepRemote ==
    \/ Query(1) /\ UNCHANGED <<cli, calls, raced>>
    \/ Shift(1) /\ UNCHANGED <<cli, calls, raced>>
    \/ Insert(1) /\ UNCHANGED <<cli, calls, raced>>
    \/ Cleanup(1) /\ UNCHANGED <<cli, calls, raced>>

SubmitLocal ==
    /\ isLocal
    /\ \E g \in {game, StrayGame}, n \in Names, s \in Scores :
           LocalSubmitScore(g, n, s)
    /\ UNCHANGED <<isLocal, game, table, pc, lam, cli, calls, raced>>

Next ==
    \/ SubmitRemote
    \/ StepRemote
    \/ SubmitLocal

Spec == Init /\ [][Next]_vars

----------------------------------------------------------------------------
(* The page: at most MaxCalls calls of checkAndSubmitScore, one at a time, *)
(* over a network and a store that may fail.                               *)

PageCall ==
    /\ calls < MaxCalls
    /\ \E g \in {game, StrayGame}, s \in Scores, fetchOk \in BOOLEAN :
           CheckAndSubmitScore(g, s, fetchOk)
    /\ calls' = calls + 1
    /\ UNCHANGED raced

PageNext ==
    \/ PageCall
    \/ (\E n \in Names : PromptThenLocal(n)) /\ UNCHANGED <<calls, raced>>
    \/ (\E n \in Names : PromptThenFetch(n)) /\ UNCHANGED <<calls, raced>>
    \/ Deliver /\ UNCHANGED <<calls, raced>>
    \/ Query(1) /\ UNCHANGED <<cli, calls, raced>>
    \/ Shift(1) /\ UNCHANGED <<cli, calls, raced>>
    \/ Insert(1) /\ UNCHANGED <<cli, calls, raced>>
    \/ Cleanup(1) /\ UNCHANGED <<cli, calls, raced>>
    \/ StoreFails(1) /\ UNCHANGED <<cli, calls, raced>>
    \/ ResponseOk /\ UNCHANGED <<calls, raced>>
    \/ ResponseNotOk /\ UNCHANGED <<calls, raced>>
    \/ FetchThrows /\ UNCHANGED <<calls, raced>>

SpecPage == Init /\ [][PageNext]_vars

----------------------------------------------------------------------------
(* The Lambda under concurrent requests: at most MaxCalls POSTs, any       *)
(* number of them in flight at once, their store calls interleaved.        *)

\* the name each concurrent request carries
RaceName(p) == IF p = 1 THEN Ann ELSE Bob

RacePost ==
    /\ calls < MaxCalls
    /\ \E p \in Procs, g \in {game, StrayGame}, s \in Scores :
           /\ Post(p, g, [playerName |-> RaceName(p), score |-> s])
           /\ raced' = (raced \/ \E q \in Procs \ {p} : pc[q] \notin {"idle", "done"})
    /\ calls' = calls + 1
    /\ UNCHANGED cli

RaceNext ==
    \/ RacePost
    \/ (\E p \in Procs : Query(p)) /\ UNCHANGED <<cli, calls, raced>>
    \/ (\E p \in Procs : Shift(p)) /\ UNCHANGED <<cli, calls, raced>>
    \/ (\E p \in Procs : Insert(p)) /\ UNCHANGED <<cli, calls, raced>>
    \/ (\E p \in Procs : Cleanup(p)) /\ UNCHANGED <<cli, calls, raced>>

RaceInit == Init /\ ~isLocal

SpecRace == RaceInit /\ [][RaceNext]_vars

----------------------------------------------------------------------------
(* The submit operations given any arguments: at most MaxCalls calls, one  *)
(* at a time, of the handler's POST with any body, of localSubmitScore,    *)
(* and of apiSubmitScore when its fetch fails.                             *)

\* scores, 0 among them
AnyScores == 0..MaxScore

\* a name of 11 characters
Bartholomew == <<"B", "a", "r", "t", "h", "o", "l", "o", "m", "e", "w">>

AnyNames == {Ann, Bartholomew}

\* parsed request bodies: complete, with an empty name, without a name,
\* without a score
Bodies ==
    {[playerName |-> n, score |-> s] : n \in AnyNames \cup {<<>>}, s \in AnyScores}
        \cup {[playerName |-> n] : n \in AnyNames}
        \cup {[score |-> s] : s \in AnyScores}

HandlerPost ==
    /\ ~isLocal
    /\ calls < MaxCalls
    /\ \E g \in {game, StrayGame}, body \in Bodies : Post(1, g, body)
    /\ calls' = calls + 1
    /\ UNCHANGED <<cli, raced>>

CallLocalSubmitScore ==
    /\ isLocal
    /\ calls < MaxCalls
    /\ \E n \in AnyNames, s \in Scores : LocalSubmitScore(game, n, s)
    /\ calls' = calls + 1
    /\ UNCHANGED <<isLocal, game, table, pc, lam, cli, raced>>

\* apiSubmitScore whose fetch rejects: the catch calls localSubmitScore
CallApiSubmitScoreCaught ==
    /\ ~isLocal
    /\ pc[1] \in {"idle", "done"}
    /\ calls < MaxCalls
    /\ \E n \in AnyNames, s \in Scores : LocalSubmitScore(game, n, s)
    /\ calls' = calls + 1
    /\ UNCHANGED <<isLocal, game, table, pc, lam, cli, raced>>

SubmitNext ==
    \/ HandlerPost
    \/ Query(1) /\ UNCHANGED <<cli, calls, raced>>
    \/ Shift(1) /\ UNCHANGED <<cli, calls, raced>>
    \/ Insert(1) /\ UNCHANGED <<cli, calls, raced>>
    \/ Cleanup(1) /\ UNCHANGED <<cli, calls, raced>>
    \/ CallLocalSubmitScore
    \/ CallApiSubmitScoreCaught

SpecSubmit == Init /\ [][SubmitNext]_vars

----------------------------------------------------------------------------
(* The Lambda over a store whose calls may fail: at most MaxCalls POSTs,   *)
(* one at a time, each under a name of its own, so that every stored entry *)
(* tells which submission it came from.                                    *)

Cyd == <<"C", "y", "d">>
Dee == <<"D", "e", "e">>
Eve == <<"E", "v", "e">>

\* the name the k-th request carries
CallNames == <<Ann, Bob, Cyd, Dee, Eve>>

CrashPost ==
    /\ calls < MaxCalls
    /\ calls < Len(CallNames)
    /\ \E s \in Scores :
           Post(1, game, [playerName |-> CallNames[calls + 1], score |-> s])
    /\ calls' = calls + 1
    /\ UNCHANGED <<cli, raced>>

CrashNext ==
    \/ CrashPost
    \/ Query(1) /\ UNCHANGED <<cli, calls, raced>>
    \/ Shift(1) /\ UNCHANGED <<cli, calls, raced>>
    \/ Insert(1) /\ UNCHANGED <<cli, calls, raced>>
    \/ Cleanup(1) /\ UNCHANGED <<cli, calls, raced>>
    \/ StoreFails(1) /\ UNCHANGED <<cli, calls, raced>>

SpecCrash == RaceInit /\ [][CrashNext]_vars

----------------------------------------------------------------------------
(* The store under everything at once: two invocations, one POST each, to  *)
(* a category that earlier submissions have left empty, with one entry,    *)
(* one short of full, or full; one after the other or both in flight with  *)
(* their store calls interleaved, and any store call may fail.             *)

\* the worst score of a game's direction
WorstScore(g) == IF LambdaGAMES[g] = "low" THEN MaxScore ELSE 1

\* what n submissions of the worst score under one name, within one
\* millisecond, leave in the table
Seeded(g, n) ==
    {[gameId |-> g, rank |-> k, playerName |-> Ann, score |-> WorstScore(g),
      timestamp |-> 0, scoreType |-> LambdaGAMES[g]] : k \in 1..n}

SeedLens == {0, 1, MAX_ENTRIES - 1, MAX_ENTRIES}

StoreInit ==
    /\ isLocal = FALSE
    /\ game \in PageGames
    /\ clock = 0
    /\ table \in IF game \in DOMAIN LambdaGAMES
                 THEN {Seeded(game, n) : n \in SeedLens}
                 ELSE {{}}
    /\ pc = [p \in Procs |-> "idle"]
    /\ lam = [p \in Procs |-> NoLocals]
    /\ localStorage = EmptyLeaderboards
    /\ loc = NoCall
    /\ cli = NoClient
    /\ calls = 0
    /\ raced = FALSE

StorePost ==
    /\ \E p \in Procs, s \in Scores :
           /\ pc[p] = "idle"
           /\ Post(p, game, [playerName |-> RaceName(p), score |-> s])
           /\ raced' = (raced \/ \E q \in Procs \ {p} : pc[q] \notin {"idle", "done"})
    /\ calls' = calls + 1
    /\ UNCHANGED cli

StoreNext ==
    \/ StorePost
    \/ (\E p \in Procs : Query(p)) /\ UNCHANGED <<cli, calls, raced>>
    \/ (\E p \in Procs : Shift(p)) /\ UNCHANGED <<cli, calls, raced>>
    \/ (\E p \in Procs : Insert(p)) /\ UNCHANGED <<cli, calls, raced>>
    \/ (\E p \in Procs : Cleanup(p)) /\ UNCHANGED <<cli, calls, raced>>
    \/ (\E p \in Procs : StoreFails(p)) /\ UNCHANGED <<cli, calls, raced>>

SpecStore == StoreInit /\ [][StoreNext]_vars

----------------------------------------------------------------------------
(* Two categories: at most MaxCalls submissions, those of the first        *)
(* invocation to the page's game and those of the second to another game;  *)
(* on the Lambda in flight at once with their store calls interleaved, in  *)
(* the browser one localSubmitScore call after the other.                  *)

OtherGame(g) == IF g = "bedtime-berzerk" THEN "pong" ELSE "bedtime-berzerk"

\* the category invocation p submits to
FrameGame(p) == IF p = 1 THEN game ELSE OtherGame(game)

FramePost ==
    /\ ~isLocal
    /\ calls < MaxCalls
    /\ \E p \in Procs, s \in Scores :
           /\ Post(p, FrameGame(p), [playerName |-> RaceName(p), score |-> s])
           /\ raced' = (raced \/ \E q \in Procs \ {p} : pc[q] \notin {"idle", "done"})
    /\ calls' = calls + 1
    /\ UNCHANGED cli

FrameLocal ==
    /\ isLocal
    /\ calls < MaxCalls
    /\ \E p \in Procs, s \in Scores :
           LocalSubmitScore(FrameGame(p), RaceName(p), s)
    /\ calls' = calls + 1
    /\ UNCHANGED <<isLocal, game, table, pc, lam, cli, raced>>

FrameNext ==
    \/ FramePost
    \/ (\E p \in Procs : Query(p)) /\ UNCHANGED <<cli, calls, raced>>
    \/ (\E p \in Procs : Shift(p)) /\ UNCHANGED <<cli, calls, raced>>
    \/ (\E p \in Procs : Insert(p)) /\ UNCHANGED <<cli, calls, raced>>
    \/ (\E p \in Procs : Cleanup(p)) /\ UNCHANGED <<cli, calls, raced>>
    \/ FrameLocal

SpecFrame == Init /\ [][FrameNext]_vars

----------------------------------------------------------------------------
(* What the properties are stated with *)

\* the stored fields of an entry, without its key
Entry(e) == [playerName |-> e.playerName, score |-> e.score,
             timestamp |-> e.timestamp]

Entries(list) == [i \in 1..Len(list) |-> Entry(list[i])]

\* the items the table holds for a game, and their ranks
ItemsOf(g) == {x \in table : x.gameId = g}
RanksOf(g) == {x.rank : x \in ItemsOf(g)}

\* the table's entries of a game in rank order
Stored(g) == Entries(GetLeaderboardWithRanks(table, g))

\* a is strictly better than b in the direction dir
Better(dir, a, b) == IF dir = "low" THEN a < b ELSE a > b

\* the rank rule of the specification: the first entry the score strictly
\* beats, else the next free rank, else -1
RefRank(dir, score, list) ==
    LET beaten == {i \in 1..Len(list) : Better(dir, score, list[i].score)} IN
    IF beaten # {} THEN CHOOSE i \in beaten : \A j \in beaten : i <= j
    ELSE IF Len(list) < MAX_ENTRIES THEN Len(list) + 1
    ELSE -1

\* old with e inserted at position r, cut to the first MAX_ENTRIES
RefInsert(old, r, e) ==
    LET n == IF Len(old) < MAX_ENTRIES THEN Len(old) + 1 ELSE MAX_ENTRIES IN
    [i \in 1..n |-> IF i < r THEN old[i] ELSE IF i = r THEN e ELSE old[i - 1]]

\* a Lambda submission has returned a result
RemoteDone == ~isLocal /\ pc[1] = "done" /\ lam[1].statusCode = 200

\* a Lambda submission has returned {qualified: true}
RemoteQualified == RemoteDone /\ lam[1].result.qualified

\* a localSubmitScore call has returned
LocalDone == isLocal /\ loc.gameId # NoValue

LocalQualified == LocalDone /\ loc.result.qualified

\* the entry a qualifying localSubmitScore call stores
LocalNewEntry == [playerName |-> loc.playerName, score |-> loc.score,
                  timestamp |-> clock]

----------------------------------------------------------------------------
(* C1: after a Lambda submission that ran alone and qualified at rank r,   *)
(* the stored list is the list it read with the new entry inserted at r    *)
(* and cut to the first 10 entries, at ranks 1..n.                         *)
C1_RemoteInsertAtRank ==
    RemoteQualified =>
        LET l == lam[1] IN
        /\ l.rank = RefRank(LambdaGAMES[l.gameId], l.score, l.leaderboard)
        /\ Stored(l.gameId) =
               RefInsert(Entries(l.leaderboard), l.rank, Entry(l.newEntry))
        /\ RanksOf(l.gameId) = 1..Len(Stored(l.gameId))

(* C2: after a localSubmitScore call for a known game that qualified at    *)
(* rank r, the stored list is the list it read with the new entry          *)
(* inserted at r and cut to the first 10 entries, in both directions.      *)
C2_LocalInsertAtRank ==
    LocalQualified =>
        /\ loc.gameId \in DOMAIN ClientGAMES
        /\ loc.result.rank =
               RefRank(ClientGAMES[loc.gameId], loc.score, loc.leaderboard)
        /\ localStorage[loc.gameId] =
               RefInsert(loc.leaderboard, loc.result.rank, LocalNewEntry)
        /\ Len(localStorage[loc.gameId]) =
               (IF Len(loc.leaderboard) = MAX_ENTRIES THEN MAX_ENTRIES
                ELSE Len(loc.leaderboard) + 1)

\* a low-is-better list that was full takes a new entry inside it
C2_Witness ==
    /\ LocalQualified
    /\ ClientGAMES[loc.gameId] = "low"
    /\ Len(loc.leaderboard) = MAX_ENTRIES
    /\ loc.result.rank \in 2..(MAX_ENTRIES - 1)
    /\ localStorage[loc.gameId][MAX_ENTRIES] = loc.leaderboard[MAX_ENTRIES - 1]

(* C3: on the remote store, from an empty category and with submissions    *)
(* one at a time, after every completed submission the ranks stored for a  *)
(* category are exactly 1..n.                                              *)
C3_RemoteRanksDense ==
    (~isLocal /\ pc[1] \in {"idle", "done"}) =>
        \A g \in {x.gameId : x \in table} \cup {game} :
            RanksOf(g) = 1..Cardinality(ItemsOf(g))

\* a submission has pushed entries down from inside a list
C3_Witness ==
    /\ RemoteQualified
    /\ lam[1].rank \in 2..Len(lam[1].leaderboard)
    /\ Cardinality(ItemsOf(lam[1].gameId)) >= 3

\* list is ordered in direction dir, every entry strictly better than the next
StrictlyOrdered(dir, list) ==
    \A i \in 1..(Len(list) - 1) : Better(dir, list[i].score, list[i + 1].score)

\* list is ordered in direction dir, no entry better than the one before it
Ordered(dir, list) ==
    \A i \in 1..(Len(list) - 1) : ~Better(dir, list[i + 1].score, list[i].score)

\* no Lambda submission is under way
RemoteQuiet == ~isLocal /\ pc[1] \in {"idle", "done"}

(* C4, as claimed: after every completed submission the entries of a       *)
(* category are strictly ordered by score in the category's direction, on  *)
(* both backends.                                                          *)
C4_StrictlyOrdered ==
    /\ RemoteQuiet =>
           \A g \in DOMAIN LambdaGAMES : StrictlyOrdered(LambdaGAMES[g], Stored(g))
    /\ isLocal =>
           \A g \in DOMAIN ClientGAMES :
               StrictlyOrdered(ClientGAMES[g], localStorage[g])

(* C4, amended: after every completed submission the entries of a category *)
(* are ordered by score in the category's direction, equal scores allowed: *)
(* the score at rank i + 1 is never strictly better than the one at rank i.*)
C4_Ordered ==
    /\ RemoteQuiet =>
           \A g \in DOMAIN LambdaGAMES : Ordered(LambdaGAMES[g], Stored(g))
    /\ isLocal =>
           \A g \in DOMAIN ClientGAMES : Ordered(ClientGAMES[g], localStorage[g])

\* a low-is-better list holding two equal scores and a strictly worse one
C4_Witness ==
    /\ RemoteQualified
    /\ LambdaGAMES[lam[1].gameId] = "low"
    /\ LET list == Stored(lam[1].gameId) IN
       /\ \E i \in 1..(Len(list) - 1) : list[i].score = list[i + 1].score
       /\ \E i \in 1..(Len(list) - 1) : list[i].score < list[i + 1].score

(* C5: in every reachable state, between the store writes of a remote      *)
(* submission too, a category holds at most 10 entries and no entry at a   *)
(* rank above 10.                                                          *)
C5_NeverOverCapacity ==
    /\ \A x \in table : x.rank <= MAX_ENTRIES
    /\ \A g \in {x.gameId : x \in table} : Cardinality(ItemsOf(g)) <= MAX_ENTRIES
    /\ \A g \in DOMAIN localStorage : Len(localStorage[g]) <= MAX_ENTRIES

\* between the writes of a submission to a full category
C5_Witness ==
    /\ ~isLocal
    /\ pc[1] = "shift"
    /\ Len(lam[1].leaderboard) = MAX_ENTRIES
    /\ Len(lam[1].todo) < Len(EntriesToUpdate(lam[1].leaderboard, lam[1].rank))
    /\ Cardinality(ItemsOf(lam[1].gameId)) = MAX_ENTRIES

(* C6: a submission run alone whose score equals that of a stored entry    *)
(* leaves that entry at its rank, and the new entry, if it qualifies, gets *)
(* a rank strictly greater than every such entry's.                        *)
C6_TiesNeverDisplace ==
    /\ RemoteDone =>
           LET l == lam[1] IN
           \A k \in 1..Len(l.leaderboard) :
               l.leaderboard[k].score = l.score =>
                   /\ l.leaderboard[k] \in table
                   /\ l.leaderboard[k].rank = k
                   /\ l.result.qualified => l.result.rank > k
    /\ LocalDone =>
           \A k \in 1..Len(loc.leaderboard) :
               loc.leaderboard[k].score = loc.score =>
                   /\ localStorage[loc.gameId][k] = loc.leaderboard[k]
                   /\ loc.result.qualified => loc.result.rank > k

\* a full list takes a score equal to one it holds
C6_Witness ==
    /\ RemoteQualified
    /\ Len(lam[1].leaderboard) = MAX_ENTRIES
    /\ \E k \in 1..MAX_ENTRIES : lam[1].leaderboard[k].score = lam[1].score

\* the score strictly beats no entry of the full list
BeatsNone(dir, score, list) ==
    /\ Len(list) = MAX_ENTRIES
    /\ \A i \in 1..Len(list) : ~Better(dir, score, list[i].score)

(* C7: a submission to a full category whose score strictly beats no       *)
(* stored entry returns {qualified: false, rank: -1} and leaves the        *)
(* category's stored entries as they were, on both backends.               *)
C7_NotQualifiedWritesNothing ==
    /\ (RemoteDone /\ BeatsNone(LambdaGAMES[lam[1].gameId], lam[1].score,
                                lam[1].leaderboard)) =>
           /\ lam[1].result = Result(FALSE, -1, NoValue)
           /\ ItemsOf(lam[1].gameId) =
                  {lam[1].leaderboard[i] : i \in 1..Len(lam[1].leaderboard)}
    /\ (LocalDone /\ loc.gameId \in DOMAIN ClientGAMES
          /\ BeatsNone(ClientGAMES[loc.gameId], loc.score, loc.leaderboard)) =>
           /\ loc.result = Result(FALSE, -1, NoValue)
           /\ localStorage[loc.gameId] = loc.leaderboard

\* a full list refuses a score equal to its worst entry
C7_Witness ==
    /\ RemoteDone
    /\ Len(lam[1].leaderboard) = MAX_ENTRIES
    /\ lam[1].leaderboard[MAX_ENTRIES].score = lam[1].score
    /\ lam[1].leaderboard[1].score # lam[1].score
    /\ ~lam[1].result.qualified

\* apiSubmitScore has returned from its catch
FailedWrite == ~isLocal /\ cli.pc = "done" /\ cli.caught

(* C8: when the remote write of a submission fails, the page's submit path *)
(* gives its caller an explicit error, does not answer with a qualified    *)
(* result of the local mirror, and leaves the local store as it was.       *)
C8_FailedWriteIsSurfaced ==
    FailedWrite =>
        /\ cli.result.error # NoValue
        /\ ~cli.result.qualified
        /\ LocalList(localStorage, cli.gameId) = loc.leaderboard

\* no Lambda invocation is under way
Quiet == \A p \in Procs : pc[p] \in {"idle", "done"}

\* invocation p has answered a submission to a configured game
Answered(p) ==
    /\ pc[p] = "done"
    /\ lam[p].statusCode = 200
    /\ lam[p].gameId \in DOMAIN LambdaGAMES

\* the table holds entry e for game g at some rank
Holds(g, e) == \E x \in ItemsOf(g) : Entry(x) = Entry(e)

\* invocation p answered {qualified: true} and its entry is in no rank
LostOwn(p) ==
    /\ Answered(p)
    /\ lam[p].result.qualified
    /\ ~Holds(lam[p].gameId, lam[p].newEntry)

\* an entry invocation p read is in no rank any more
LostOld(p) ==
    /\ Answered(p)
    /\ \E i \in 1..Len(lam[p].leaderboard) :
           ~Holds(lam[p].gameId, lam[p].leaderboard[i])

\* the stored scores of some game are out of order
OutOfOrder ==
    \E g \in DOMAIN LambdaGAMES : ~Ordered(LambdaGAMES[g], Stored(g))

(* C9: with fewer requests than would fill a category, once every request  *)
(* has completed, a qualified submission without an entry in the store, a  *)
(* stored entry gone missing, or stored scores out of order occur only     *)
(* when requests were in flight at once; and then they do occur.           *)
C9_CorruptionOnlyWhenRaced ==
    (/\ Quiet
     /\ calls < MAX_ENTRIES
     /\ \/ \E p \in Procs : LostOwn(p) \/ LostOld(p)
        \/ OutOfOrder)
    => raced

\* both of two concurrent submissions returned {qualified: true} and the
\* entry of one of them is not in the store
C9_Witness ==
    /\ Quiet
    /\ raced
    /\ calls = 2
    /\ lam[1].gameId = lam[2].gameId
    /\ LostOwn(1)
    /\ Answered(2) /\ lam[2].result.qualified

(* C10: a submission for a game that is not configured returns             *)
(* {qualified: false, rank: -1} with an error indication and leaves the    *)
(* store as it was, on both backends.                                      *)
C10_UnknownGameRejected ==
    /\ (RemoteDone /\ lam[1].gameId \notin DOMAIN LambdaGAMES) =>
           /\ lam[1].result.qualified = FALSE
           /\ lam[1].result.rank = -1
           /\ lam[1].result.error # NoValue
           /\ ItemsOf(lam[1].gameId) = {}
    /\ (LocalDone /\ loc.gameId \notin DOMAIN ClientGAMES) =>
           /\ loc.result.qualified = FALSE
           /\ loc.result.rank = -1
           /\ loc.result.error # NoValue
           /\ loc.gameId \notin DOMAIN localStorage

----------------------------------------------------------------------------
\* list holds at most the TOP_ENTRIES best-ranked entries of full, in order
IsTopOf(list, full) ==
    /\ Len(list) <= TOP_ENTRIES
    /\ list = Take(full, TOP_ENTRIES)

(* C11: getAllLeaderboards returns for every category at most 3 entries,   *)
(* the entries at the 3 best ranks in rank order, on each path: the        *)
(* Lambda's scan, the client in local mode, and the client's fallback to   *)
(* the local mirror when the fetch fails.                                  *)
C11_AllLeaderboardsTopThree ==
    /\ \A g \in DOMAIN LambdaGetAllLeaderboards(table) :
           IsTopOf(LambdaGetAllLeaderboards(table)[g], Stored(g))
    /\ \A fetchOk \in BOOLEAN :
           LET all == ClientGetAllLeaderboards(fetchOk) IN
           \A g \in DOMAIN all :
               IsTopOf(all[g], IF isLocal \/ ~fetchOk
                               THEN LocalList(localStorage, g)
                               ELSE Stored(g))

(* C12: the mapping getAllLeaderboards returns has a key for every         *)
(* category its caller's configuration knows: every game of the Lambda's   *)
(* GAMES in the Lambda's answer, every game of the client's GAMES in what  *)
(* the client receives, in local mode and in API mode.                     *)
C12_AllLeaderboardsEveryGame ==
    /\ DOMAIN LambdaGAMES \subseteq DOMAIN LambdaGetAllLeaderboards(table)
    /\ \A fetchOk \in BOOLEAN :
           DOMAIN ClientGAMES \subseteq DOMAIN ClientGetAllLeaderboards(fetchOk)

(* C13: every entry a submission stores has a playerName of at most 10     *)
(* characters, whatever name the submit operation is given, in the table   *)
(* and in localStorage.                                                    *)
C13_StoredNamesAtMostTen ==
    /\ \A x \in table : Len(x.playerName) <= 10
    /\ \A g \in DOMAIN localStorage :
           \A i \in 1..Len(localStorage[g]) :
               Len(localStorage[g][i].playerName) <= 10

\* the body has no field f
Lacks(body, f) == f \notin DOMAIN body

\* the request the handler has taken is one the validation refuses
Refused(body) ==
    IF Lacks(body, "playerName") THEN TRUE
    ELSE IF Len(body.playerName) = 0 THEN TRUE
    ELSE Lacks(body, "score")

(* C15: a POST whose body has no playerName, an empty one, or no score is  *)
(* answered 400 with no store call made and the table as it was; a POST    *)
(* with a non-empty name and a score, 0 included, is not answered 400.     *)
C15_MissingFieldRejected ==
    [][ pc'[1] # "idle" =>
          IF Refused(lam'[1].body)
          THEN /\ pc'[1] = "done"
               /\ lam'[1].statusCode = 400
               /\ table' = table
          ELSE /\ lam'[1].statusCode # 400
               /\ (lam'[1].body.score = 0 /\ pc'[1] = "done"
                     /\ lam'[1].gameId \in DOMAIN LambdaGAMES
                     /\ lam'[1].result.qualified)
                  => \E x \in table' : x.score = 0 /\ x.rank = lam'[1].rank
    ]_vars

\* a POST without a score is refused after a score of 0 was stored
C15_Witness ==
    /\ ~isLocal
    /\ pc[1] = "done"
    /\ lam[1].statusCode = 400
    /\ Lacks(lam[1].body, "score")
    /\ \E x \in table : x.score = 0

\* a submit response: qualified exactly with a rank of 1..10, not qualified
\* exactly with rank -1
WellFormed(result) ==
    /\ result.qualified <=> result.rank \in 1..MAX_ENTRIES
    /\ ~result.qualified <=> result.rank = -1

(* C14: the response of a submission run alone has qualified true exactly  *)
(* when its rank is in 1..10 and qualified false exactly when its rank is  *)
(* -1; when it is qualified, the submitted score and name are stored at    *)
(* exactly the returned rank once the submission has completed.            *)
C14_ResultMatchesStore ==
    /\ RemoteDone =>
           /\ WellFormed(lam[1].result)
           /\ lam[1].result.qualified =>
                  \E x \in ItemsOf(lam[1].gameId) :
                      /\ x.rank = lam[1].result.rank
                      /\ x.score = lam[1].score
                      /\ x.playerName = lam[1].playerName
    /\ LocalDone =>
           /\ WellFormed(loc.result)
           /\ loc.result.qualified =>
                  LET list == LocalList(localStorage, loc.gameId) IN
                  /\ loc.result.rank <= Len(list)
                  /\ list[loc.result.rank].score = loc.score
                  /\ list[loc.result.rank].playerName = loc.playerName

\* a full list takes a new entry at its last rank
C14_Witness ==
    /\ RemoteQualified
    /\ Len(lam[1].leaderboard) = MAX_ENTRIES
    /\ lam[1].result.rank = MAX_ENTRIES
    /\ Cardinality(ItemsOf(lam[1].gameId)) = MAX_ENTRIES

\* a Lambda submission is between its store writes
Writing == ~isLocal /\ pc[1] \in {"shift", "insert", "cleanup"}

\* the entries of list come in descending rank order
Descending(list) ==
    \A i \in 1..(Len(list) - 1) : list[i].rank > list[i + 1].rank

\* positions of the list read whose entries the submission is to keep:
\* those above the insertion rank, and those below it that stay within rank 10
Survivors(leaderboard, rank) ==
    {k \in 1..Len(leaderboard) : k < rank \/ k + 1 <= MAX_ENTRIES}

(* C16: the shift step of a remote submission takes the displaced entries  *)
(* in descending rank order, and in every store state between two writes   *)
(* of the submission every entry that survives it is in the store at some  *)
(* rank.                                                                   *)
C16_ShiftKeepsSurvivors ==
    Writing =>
        /\ Descending(lam[1].todo)
        /\ \A k \in Survivors(lam[1].leaderboard, lam[1].rank) :
               Holds(lam[1].gameId, lam[1].leaderboard[k])

\* some entry of game g is stored at two ranks
StoredTwice(g) ==
    \E x, y \in ItemsOf(g) : x.rank # y.rank /\ Entry(x) = Entry(y)

(* C17: after a remote submission that stopped between its store writes,   *)
(* once the next submission to the category has run alone to completion    *)
(* the category is consistent: its ranks are exactly 1..n, its scores are  *)
(* ordered in its direction, and no entry is stored at two ranks.          *)
C17_ConsistentAfterCrash ==
    (RemoteDone /\ lam[1].gameId \in DOMAIN LambdaGAMES) =>
        LET g == lam[1].gameId IN
        /\ RanksOf(g) = 1..Cardinality(ItemsOf(g))
        /\ Ordered(LambdaGAMES[g], Stored(g))
        /\ ~StoredTwice(g)

\* the list of the page's game as the backend in use stores it
CurrentList ==
    IF isLocal THEN LocalList(localStorage, game)
    ELSE GetLeaderboardWithRanks(table, game)

(* C18: for every score, each direction and every rank-ordered list of at  *)
(* most 10 entries, the Lambda's getRank and the client's getRank return   *)
(* the same value, that of the rank rule: i + 1 for the first entry i the  *)
(* score strictly beats, else len + 1 when len < 10, else -1.              *)
C18_GetRanksAgree ==
    /\ \A score \in Scores :
           LET dir == ClientGAMES[game]
               ref == RefRank(dir, score, CurrentList)
           IN /\ LambdaGetRank(dir, score, CurrentList) = ref
              /\ ClientGetRank(game, score, CurrentList) = ref
    /\ (RemoteDone /\ lam[1].gameId \in DOMAIN LambdaGAMES) =>
           /\ lam[1].rank = RefRank(LambdaGAMES[lam[1].gameId], lam[1].score,
                                    lam[1].leaderboard)
           /\ lam[1].rank = ClientGetRank(lam[1].gameId, lam[1].score,
                                          lam[1].leaderboard)
    /\ LocalQualified =>
           /\ loc.result.rank = RefRank(ClientGAMES[loc.gameId], loc.score,
                                        loc.leaderboard)
           /\ loc.result.rank = LambdaGetRank(ClientGAMES[loc.gameId], loc.score,
                                              loc.leaderboard)

\* on a full low-is-better list the two getRank give -1 for one score and
\* a rank inside the list for another
C18_Witness ==
    /\ ClientGAMES[game] = "low"
    /\ Len(CurrentList) = MAX_ENTRIES
    /\ \E s \in Scores : ClientGetRank(game, s, CurrentList) = -1
    /\ \E s \in Scores : LambdaGetRank("low", s, CurrentList) \in 2..MAX_ENTRIES
    /\ RemoteDone /\ lam[1].rank = -1

(* C19: a completed submission changes nothing of the entries that were    *)
(* stored but the rank of those it displaces: what is stored above the     *)
(* insertion rank is the entry that was there, unchanged; what is stored   *)
(* below it is the entry that was one rank higher, with the same           *)
(* playerName, score and timestamp and a rank exactly one greater.         *)
C19_OnlyRanksChange ==
    /\ RemoteQualified =>
           LET l == lam[1] IN
           \A x \in ItemsOf(l.gameId) :
               /\ x.rank < l.rank => x = l.leaderboard[x.rank]
               /\ x.rank > l.rank =>
                      /\ x.rank - 1 <= Len(l.leaderboard)
                      /\ x = [l.leaderboard[x.rank - 1] EXCEPT !.rank = x.rank]
    /\ LocalQualified =>
           LET list == localStorage[loc.gameId]
               rank == loc.result.rank
           IN \A k \in 1..Len(list) :
                  /\ k < rank => list[k] = loc.leaderboard[k]
                  /\ k > rank => list[k] = loc.leaderboard[k - 1]
    /\ (RemoteDone /\ ~lam[1].result.qualified) =>
           ItemsOf(lam[1].gameId) =
               {lam[1].leaderboard[i] : i \in 1..Len(lam[1].leaderboard)}
    /\ (LocalDone /\ ~loc.result.qualified) =>
           LocalList(localStorage, loc.gameId) = loc.leaderboard

\* a submission has gone into the middle of a list: entries stay above it
\* and entries with another score move down below it
C19_Witness ==
    /\ RemoteQualified
    /\ lam[1].rank \in 2..(Len(lam[1].leaderboard) - 1)
    /\ \E x \in ItemsOf(lam[1].gameId) :
           x.rank > lam[1].rank + 1 /\ x.score # lam[1].score

\* the page judged its score as qualifying against the server's list and
\* apiSubmitScore returned the Lambda's answer
Served ==
    /\ ~isLocal
    /\ cli.pc = "done"
    /\ ~cli.caught
    /\ cli.rank >= 1

(* C20: the Lambda's GAMES and the client's GAMES have the same game ids,   *)
(* each with the same scoreType, so that a score the client judges as      *)
(* qualifying for a game it knows, against the server's list, is not       *)
(* rejected by the Lambda as one for an unknown game.                      *)
C20_ConfigurationsMatch ==
    Served =>
        /\ DOMAIN LambdaGAMES = DOMAIN ClientGAMES
        /\ \A g \in DOMAIN LambdaGAMES \cap DOMAIN ClientGAMES :
               LambdaGAMES[g] = ClientGAMES[g]
        /\ cli.result.error # "Unknown game"

(* C21: in every state of the remote store, between the writes of a        *)
(* submission, after a failed store call and under any interleaving of     *)
(* concurrent submissions, the ranks stored for a category are exactly     *)
(* 1..m for some m in 0..10: never a gap, and never an entry at rank 11    *)
(* for the cleanup delete to remove.                                       *)
C21_RanksArePrefix ==
    \A g \in {x.gameId : x \in table} \cup {game} :
        /\ \E m \in 0..MAX_ENTRIES : RanksOf(g) = 1..m
        /\ \A x \in ItemsOf(g) : x.rank # MAX_ENTRIES + 1

\* two submissions that read a full list are in flight and the last rank
\* has been deleted
C21_Witness ==
    /\ raced
    /\ \A p \in Procs :
           /\ pc[p] \in {"shift", "insert", "cleanup"}
           /\ Len(lam[p].leaderboard) = MAX_ENTRIES
    /\ Cardinality(ItemsOf(game)) = MAX_ENTRIES - 1

(* C22: on the client, for every known game, every score and every list of *)
(* at most 10 entries ordered in the game's direction, ties allowed,       *)
(* scoreQualifies is true exactly when getRank is not -1; so the rank at   *)
(* which localSubmitScore splices its entry is never -1.                   *)
C22_QualifiesIffRanked ==
    /\ Ordered(ClientGAMES[game], CurrentList) =>
           \A score \in Scores :
               ScoreQualifies(game, score, CurrentList)
                   <=> ClientGetRank(game, score, CurrentList) # -1
    /\ LocalDone =>
           /\ loc.gameId \in DOMAIN ClientGAMES =>
                  (loc.result.qualified <=>
                      ClientGetRank(loc.gameId, loc.score, loc.leaderboard) # -1)
           /\ loc.result.qualified => loc.result.rank \in 1..MAX_ENTRIES

\* localSubmitScore has refused a score that ties the worst entry of a
\* full list holding two different scores, which a better score would enter
C22_Witness ==
    /\ LocalDone
    /\ ~loc.result.qualified
    /\ Len(loc.leaderboard) = MAX_ENTRIES
    /\ loc.leaderboard[MAX_ENTRIES].score = loc.score
    /\ loc.leaderboard[1].score # loc.score
    /\ \E s \in Scores : ScoreQualifies(loc.gameId, s, loc.leaderboard)

\* invocation p takes the step
Acts(p) == pc'[p] # pc[p] \/ lam'[p] # lam[p]

(* C23: a submission to one category leaves the stored entries of every    *)
(* other category as they were: each store call of a Lambda invocation,    *)
(* whatever other invocations are in flight for other categories, and      *)
(* each localSubmitScore call.                                             *)
C23_OtherCategoriesUntouched ==
    [][ /\ table' # table => \E p \in Procs : Acts(p)
        /\ \A p \in Procs : Acts(p) =>
               \A g \in {x.gameId : x \in table \cup table'} \ {lam'[p].gameId} :
                   {x \in table' : x.gameId = g} = ItemsOf(g)
        /\ localStorage' # localStorage =>
               \A g \in (DOMAIN localStorage \cup DOMAIN localStorage')
                             \ {loc'.gameId} :
                   LocalList(localStorage', g) = LocalList(localStorage, g)
    ]_vars

\* both categories hold entries and both invocations are between their
\* store writes
C23_Witness ==
    /\ raced
    /\ \A p \in Procs :
           /\ pc[p] \in {"shift", "insert", "cleanup"}
           /\ ItemsOf(FrameGame(p)) # {}
    /\ lam[1].gameId # lam[2].gameId

====
